---- MODULE Spec2Model ----
(***************************************************************************)
(* SD card peripheral of the retro Z80 emulator (src/src/sd.rs).           *)
(*                                                                         *)
(* The state is the SdState record behind SdCard::state, the cpu_mem       *)
(* binding, and the two collaborators the handlers act on: the host        *)
(* storage directory (fs, root_ok) and the guest memory (mem).  One        *)
(* action models one arm of read_port / write_port; handle_command is the  *)
(* body of the command-port arm.  The variable last records the port       *)
(* access that produced the current state: for a write the value written,  *)
(* for a read the value returned.  The variable guest is the position of   *)
(* the guest program when it runs one of the fixed port sequences below.   *)
(*                                                                         *)
(* Option<T> is a sequence of length at most one: None is << >> and        *)
(* Some(x) is <<x>>.                                                       *)
(***************************************************************************)
EXTENDS Integers, Sequences, FiniteSets, TLC

VARIABLES filename, filename_pos, file, status, dir, dir_entry, dir_entry_pos,
          seek_pos, dma_addr, block_status, cpu_mem, mem, fs, root_ok, last, guest

sdState == <<filename, filename_pos, file, status, dir, dir_entry,
             dir_entry_pos, seek_pos, dma_addr, block_status>>
hostState == <<cpu_mem, mem, fs, root_ok>>
vars == <<filename, filename_pos, file, status, dir, dir_entry, dir_entry_pos,
          seek_pos, dma_addr, block_status, cpu_mem, mem, fs, root_ok, last, guest>>

----------------------------------------------------------------------------
(* Port numbers, opcodes and status bits.                                  *)

SD_CMD_PORT == 16
SD_STATUS_PORT == 17
SD_DATA_PORT == 18
SD_FNAME_PORT == 19
SD_SEEK_LO == 20
SD_SEEK_HI == 21
SD_DMA_LO == 22
SD_DMA_HI == 23
SD_BLOCK_CMD == 24
SD_SEEK_EX == 25

BLOCK_SIZE == 128

CMD_OPEN_READ == 1
CMD_CREATE == 2
CMD_OPEN_APPEND == 3
CMD_SEEK_START == 4
CMD_CLOSE == 5
CMD_DIR == 6
CMD_OPEN_RW == 7
CMD_SEEK_BYTE == 8
CMD_SEEK_16 == 9

STATUS_READY == 1
STATUS_ERROR == 2
STATUS_DATA == 128

\* dma_addr: 0x0080 in SdState::default
DMA_DEFAULT == 128
\* the value read_port returns for a port it does not decode
UNMAPPED_READ == 255
\* one more than the 24-bit masks of the seek lanes let seek_pos reach
SEEK_LIMIT == 16777216
\* size of the guest address space tested by the block transfers
MEM_LIMIT == 65536

----------------------------------------------------------------------------
(* Bounds and input alphabets of the model.                                *)

\* longest pending filename the guest builds
MaxNameLen == 1
\* data-port writes happen at file offsets below this
MaxFileLen == 2
\* port accesses the guest makes before it starts a fixed sequence
MaxPrelude == 3
\* bytes the guest writes to the filename port between two open commands
MaxTyped == 3
\* port accesses the guest makes when it uses every port of the peripheral
MaxAccesses == 4
\* block transfers and seeks the guest makes once it has set a transfer up
MaxTransfers == 3

\* characters the guest writes to the filename port ("a")
NameChars == {97}
\* bytes the guest writes to the filename port between two open commands
\* ("a", "b" and the terminator)
TypedVals == {0, 97, 98}
\* bytes the guest writes to the data port
DataVals == {7}
\* bytes the guest writes in the create/write/read-back sequences
SequenceVals == {0, 7}
\* bytes the guest writes to the seek lanes
SeekVals == {0, 1, 255}
\* bytes the guest writes to the DMA address lanes
DmaVals == {128, 255}
\* command bytes: the nine opcodes and two unrecognised ones
CmdVals == 0 .. 10
\* ports outside the peripheral's range
OtherPorts == {15, 26}

None == << >>
Some(x) == <<x>>

Min(a, b) == IF a < b THEN a ELSE b
Max(a, b) == IF a > b THEN a ELSE b

----------------------------------------------------------------------------
(* Bit operations on the widths the code uses.                             *)

\* x | STATUS_DATA for a status byte x that has bit 7 clear or set
OrBit(x, bit) == IF (x \div bit) % 2 = 1 THEN x ELSE x + bit
HasBit(x, bit) == (x \div bit) % 2 = 1

\* (seek_pos & 0xFFFF00) | val
SetSeekLo(pos, val) == (pos - (pos % 256)) + val
\* a high-lane write that also clears the low lane
SetSeekHi_ClearsLow(pos, val) == (pos \div 65536) * 65536 + val * 256
\* (seek_pos & 0xFF00FF) | (val << 8)
SetSeekHi(pos, val) == (pos - ((pos \div 256) % 256) * 256) + val * 256
\* (seek_pos & 0x00FFFF) | (val << 16), in a u32
SetSeekEx(pos, val) == (pos % 65536) + val * 65536
\* a low-byte write that also clears the high byte
SetDmaLo_ClearsHigh(addr, val) == val
\* (dma_addr & 0xFF00) | val
SetDmaLo(addr, val) == (addr - (addr % 256)) + val
\* (dma_addr & 0x00FF) | (val << 8), in a u16
SetDmaHi(addr, val) == (addr % 256) + val * 256

----------------------------------------------------------------------------
(* The host storage directory.  fs maps the name of every regular file     *)
(* under the storage root to its content; root_ok is FALSE when the        *)
(* storage root can be neither created nor listed.  The empty name joins   *)
(* to the storage root itself.                                             *)

\* UTF-8 bytes of a char pushed by `val as char` (code points 0..255)
Utf8Char(c) == IF c < 128 THEN <<c>> ELSE <<192 + (c \div 64), 128 + (c % 64)>>

RECURSIVE Utf8(_)
Utf8(s) == IF s = << >> THEN << >> ELSE Utf8Char(Head(s)) \o Utf8(Tail(s))

Exists(name) == name \in DOMAIN fs

\* an open std::fs::File: the path it was opened on, the offset of the
\* descriptor and the access mode it was opened with
Handle(name, pos, rd, wr) == [name |-> name, pos |-> pos, rd |-> rd, wr |-> wr]

\* bytes left between the handle's offset and the end of its file
Remaining(h) == IF Exists(h.name) THEN Max(Len(fs[h.name]) - h.pos, 0) ELSE 0

\* file.read_exact(&mut [0u8; 1]) returns Ok
ReadOk(h) == h.rd /\ Exists(h.name) /\ Remaining(h) >= 1

\* content after writing bytes at offset pos (a gap past the end reads as 0)
Overwrite(content, pos, bytes) ==
    [i \in 1 .. Max(Len(content), pos + Len(bytes)) |->
        IF i > pos /\ i <= pos + Len(bytes) THEN bytes[i - pos]
        ELSE IF i <= Len(content) THEN content[i]
        ELSE 0]

\* fs after file.write_all(bytes) on handle h (an Err leaves it as it is)
FsAfterWrite(h, bytes) ==
    IF h.wr
    THEN [fs EXCEPT ![h.name] = Overwrite(@, h.pos, bytes)]
    ELSE fs

\* the handle after file.write_all(bytes)
HandleAfterWrite(h, bytes) ==
    IF h.wr THEN [h EXCEPT !.pos = @ + Len(bytes)] ELSE h

\* a create that opens an existing file without truncating it
FsAfterCreate_NoTruncate(name) ==
    [n \in DOMAIN fs \cup {name} |-> IF n \in DOMAIN fs THEN fs[n] ELSE << >>]

\* fs after File::create(name) succeeded: the file exists and is empty
FsAfterCreate(name) ==
    [n \in DOMAIN fs \cup {name} |-> IF n = name THEN << >> ELSE fs[n]]

\* outcomes of File::open(storage_dir.join(name)): a missing file fails, a
\* regular file opens; the storage root itself opens on hosts that let a
\* directory be opened read-only and fails on the others
OpenReadOutcomes(name) ==
    IF ~root_ok THEN {FALSE}
    ELSE IF name = << >> THEN {TRUE, FALSE}
    ELSE {Exists(name)}

\* File::create(storage_dir.join(name)) succeeds
CreateOk(name) == root_ok /\ name # << >>

\* OpenOptions::new().read(true).write(true).open(storage_dir.join(name))
OpenRwOk(name) == root_ok /\ Exists(name)

Dot == <<46>>
DotDot == <<46, 46>>

\* the orders in which the host may enumerate a set of names
Orders(S) ==
    {s \in [1 .. Cardinality(S) -> S] : \A i, j \in DOMAIN s : s[i] = s[j] => i = j}

\* what fs::read_dir(storage_dir) may yield: the files of the storage root
\* in any order, after the self and parent entries on a host that reports them
RawListings ==
    {pre \o o : pre \in {<< >>, <<Dot, DotDot>>}, o \in Orders(DOMAIN fs)}

\* the loop of the directory branch: entries named "." or ".." are passed over
RECURSIVE SkipDots(_)
SkipDots(entries) ==
    IF entries = << >> THEN << >>
    ELSE IF Head(entries) = Dot \/ Head(entries) = DotDot THEN SkipDots(Tail(entries))
    ELSE entries

\* format!("{}\r\n", name).as_bytes()
FormatEntry(name) == Utf8(name) \o <<13, 10>>

----------------------------------------------------------------------------
(* Guest memory: mem holds the bytes that are not zero.                    *)

MemR8(a) == IF a \in DOMAIN mem THEN mem[a] ELSE 0

\* a copy loop whose addresses wrap around the 64 KiB address space
MemAfterBlock_Wraps(dma, buffer) ==
    LET window == {a % MEM_LIMIT : a \in dma .. dma + BLOCK_SIZE - 1}
        val(a) == IF a \in window THEN buffer[((a - dma) % MEM_LIMIT) + 1] ELSE MemR8(a)
    IN  [a \in {x \in DOMAIN mem \cup window : val(x) # 0} |-> val(a)]

\* mem after w8(dma + i, buffer[i]) for every i with dma + i < 0x10000
MemAfterBlock(dma, buffer) ==
    LET window == {a \in dma .. dma + BLOCK_SIZE - 1 : a < MEM_LIMIT}
        val(a) == IF a \in window THEN buffer[a - dma + 1] ELSE MemR8(a)
    IN  [a \in {x \in DOMAIN mem \cup window : val(x) # 0} |-> val(a)]

\* a buffer whose tail past the bytes read is not cleared
ReadBuffer_TailNotCleared(h, n) ==
    [i \in 1 .. BLOCK_SIZE |-> IF i <= n THEN fs[h.name][h.pos + i] ELSE 229]

\* the buffer block-read fills: n file bytes from the handle's offset, then zeros
ReadBuffer(h, n) ==
    [i \in 1 .. BLOCK_SIZE |-> IF i <= n THEN fs[h.name][h.pos + i] ELSE 0]

\* a buffer filled from addresses that wrap around the 64 KiB address space
WriteBuffer_Wraps(dma) ==
    [i \in 1 .. BLOCK_SIZE |-> MemR8((dma + (i - 1)) % MEM_LIMIT)]

\* the buffer block-write fills from guest memory
WriteBuffer(dma) ==
    [i \in 1 .. BLOCK_SIZE |-> IF dma + (i - 1) < MEM_LIMIT THEN MemR8(dma + (i - 1)) ELSE 0]

----------------------------------------------------------------------------
(* Init: SdState::default(), SdCard::new(), and a host directory.          *)

File_a == <<97>>

\* the guest before it starts a fixed sequence: n counts its accesses
\* busy: a file was open when the sequence began
GuestFree == [pc |-> "free", kind |-> "none", name |-> << >>, old |-> 0,
              B |-> << >>, n |-> 0, got |-> << >>, extra |-> 0, busy |-> FALSE]

InitFs ==
    { [n \in {} |-> << >>],
      [n \in {File_a} |-> << >>],
      [n \in {File_a} |-> <<7, 0>>] }

InitMem == { [a \in {} |-> 0] }

Init ==
    /\ filename = << >>
    /\ filename_pos = 0
    /\ file = None
    /\ status = STATUS_READY
    /\ dir = None
    /\ dir_entry = << >>
    /\ dir_entry_pos = 0
    /\ seek_pos = 0
    /\ dma_addr = DMA_DEFAULT
    /\ block_status = 0
    /\ cpu_mem = FALSE
    /\ mem \in InitMem
    /\ root_ok \in BOOLEAN
    /\ fs \in (IF root_ok THEN InitFs ELSE {[n \in {} |-> << >>]})
    /\ last = [op |-> "init", port |-> 0, val |-> 0, was |-> 0]
    /\ guest = GuestFree

----------------------------------------------------------------------------
(* handle_command                                                          *)

\* a failure path that stores ERROR without READY
ErrorReady_ErrorOnly == STATUS_ERROR

\* STATUS_ERROR | STATUS_READY
ErrorReady == OrBit(STATUS_ERROR, STATUS_READY)

\* an open-read that keeps the pending filename when the open fails
CmdOpenRead_NameKeptOnFailure ==
    \E ok \in OpenReadOutcomes(filename) :
        /\ file' = IF ok THEN Some(Handle(filename, 0, TRUE, FALSE)) ELSE None
        /\ status' = IF ok THEN STATUS_READY ELSE ErrorReady
        /\ filename' = IF ok THEN << >> ELSE filename
        /\ UNCHANGED <<filename_pos, dir, dir_entry, dir_entry_pos, seek_pos,
                       dma_addr, block_status, fs>>

CmdOpenRead ==
    \E ok \in OpenReadOutcomes(filename) :
        /\ file' = IF ok THEN Some(Handle(filename, 0, TRUE, FALSE)) ELSE None
        /\ status' = IF ok THEN STATUS_READY ELSE ErrorReady
        /\ filename' = << >>
        /\ UNCHANGED <<filename_pos, dir, dir_entry, dir_entry_pos, seek_pos,
                       dma_addr, block_status, fs>>

\* a create that opens the file but leaves the status register as it was
CmdCreate_StatusKept ==
    /\ file' = IF CreateOk(filename) THEN Some(Handle(filename, 0, FALSE, TRUE)) ELSE None
    /\ fs' = IF CreateOk(filename) THEN FsAfterCreate(filename) ELSE fs
    /\ status' = IF CreateOk(filename) THEN status ELSE ErrorReady
    /\ filename' = << >>
    /\ UNCHANGED <<filename_pos, dir, dir_entry, dir_entry_pos, seek_pos,
                   dma_addr, block_status>>

CmdCreate ==
    /\ file' = IF CreateOk(filename) THEN Some(Handle(filename, 0, FALSE, TRUE)) ELSE None
    /\ fs' = IF CreateOk(filename) THEN FsAfterCreate(filename) ELSE fs
    /\ status' = IF CreateOk(filename) THEN STATUS_READY ELSE ErrorReady
    /\ filename' = << >>
    /\ UNCHANGED <<filename_pos, dir, dir_entry, dir_entry_pos, seek_pos,
                   dma_addr, block_status>>

\* an open-append that leaves the handle at the start of the file
CmdOpenAppend_AtStart ==
    /\ file' = IF OpenRwOk(filename)
               THEN Some(Handle(filename, 0, TRUE, TRUE))
               ELSE None
    /\ status' = IF OpenRwOk(filename) THEN STATUS_READY ELSE ErrorReady
    /\ filename' = << >>
    /\ UNCHANGED <<filename_pos, dir, dir_entry, dir_entry_pos, seek_pos,
                   dma_addr, block_status, fs>>

CmdOpenAppend ==
    /\ file' = IF OpenRwOk(filename)
               THEN Some(Handle(filename, Len(fs[filename]), TRUE, TRUE))
               ELSE None
    /\ status' = IF OpenRwOk(filename) THEN STATUS_READY ELSE ErrorReady
    /\ filename' = << >>
    /\ UNCHANGED <<filename_pos, dir, dir_entry, dir_entry_pos, seek_pos,
                   dma_addr, block_status, fs>>

\* a seek-to-start that retires the enumeration when it finds no file
CmdSeekStart_ClosesDirOnFailure ==
    /\ file' = IF file # None THEN Some([file[1] EXCEPT !.pos = 0]) ELSE file
    /\ status' = IF file # None THEN STATUS_READY ELSE ErrorReady
    /\ dir' = IF file # None THEN dir ELSE None
    /\ UNCHANGED <<filename, filename_pos, dir_entry, dir_entry_pos, seek_pos,
                   dma_addr, block_status, fs>>

CmdSeekStart ==
    /\ file' = IF file # None THEN Some([file[1] EXCEPT !.pos = 0]) ELSE file
    /\ status' = IF file # None THEN STATUS_READY ELSE ErrorReady
    /\ UNCHANGED <<filename, filename_pos, dir, dir_entry, dir_entry_pos, seek_pos,
                   dma_addr, block_status, fs>>

\* a close that retires the file and leaves the enumeration open
CmdClose_FileOnly ==
    /\ file' = None
    /\ status' = STATUS_READY
    /\ UNCHANGED <<filename, filename_pos, dir, dir_entry, dir_entry_pos, seek_pos,
                   dma_addr, block_status, fs>>

CmdClose ==
    /\ file' = None
    /\ dir' = None
    /\ status' = STATUS_READY
    /\ UNCHANGED <<filename, filename_pos, dir_entry, dir_entry_pos, seek_pos,
                   dma_addr, block_status, fs>>

CmdDir ==
    IF root_ok
    THEN \E listing \in RawListings :
            /\ dir' = Some(listing)
            /\ dir_entry' = << >>
            /\ dir_entry_pos' = 0
            /\ status' = STATUS_READY
            /\ UNCHANGED <<filename, filename_pos, file, seek_pos, dma_addr,
                           block_status, fs>>
    ELSE /\ dir' = None
         /\ status' = ErrorReady
         /\ UNCHANGED <<filename, filename_pos, file, dir_entry, dir_entry_pos,
                        seek_pos, dma_addr, block_status, fs>>

\* an open-read-write that truncates the file it opens
CmdOpenRw_Truncates ==
    /\ file' = IF OpenRwOk(filename) THEN Some(Handle(filename, 0, TRUE, TRUE)) ELSE None
    /\ fs' = IF OpenRwOk(filename) THEN FsAfterCreate(filename) ELSE fs
    /\ status' = IF OpenRwOk(filename) THEN STATUS_READY ELSE ErrorReady
    /\ filename' = << >>
    /\ UNCHANGED <<filename_pos, dir, dir_entry, dir_entry_pos, seek_pos,
                   dma_addr, block_status>>

CmdOpenRw ==
    /\ file' = IF OpenRwOk(filename) THEN Some(Handle(filename, 0, TRUE, TRUE)) ELSE None
    /\ status' = IF OpenRwOk(filename) THEN STATUS_READY ELSE ErrorReady
    /\ filename' = << >>
    /\ UNCHANGED <<filename_pos, dir, dir_entry, dir_entry_pos, seek_pos,
                   dma_addr, block_status, fs>>

\* a seek-to-cursor that zeroes the cursor once it has been used
CmdSeek_ResetsCursor ==
    /\ file' = IF file # None THEN Some([file[1] EXCEPT !.pos = seek_pos]) ELSE file
    /\ status' = IF file # None THEN STATUS_READY ELSE ErrorReady
    /\ seek_pos' = 0
    /\ UNCHANGED <<filename, filename_pos, dir, dir_entry, dir_entry_pos,
                   dma_addr, block_status, fs>>

CmdSeek ==
    /\ file' = IF file # None THEN Some([file[1] EXCEPT !.pos = seek_pos]) ELSE file
    /\ status' = IF file # None THEN STATUS_READY ELSE ErrorReady
    /\ UNCHANGED <<filename, filename_pos, dir, dir_entry, dir_entry_pos, seek_pos,
                   dma_addr, block_status, fs>>

\* a decoder whose default arm stores READY
HandleCommand_UnknownSetsReady(cmd) ==
    IF cmd = CMD_OPEN_READ THEN CmdOpenRead
    ELSE IF cmd = CMD_CREATE THEN CmdCreate
    ELSE IF cmd = CMD_OPEN_APPEND THEN CmdOpenAppend
    ELSE IF cmd = CMD_SEEK_START THEN CmdSeekStart
    ELSE IF cmd = CMD_CLOSE THEN CmdClose
    ELSE IF cmd = CMD_DIR THEN CmdDir
    ELSE IF cmd = CMD_OPEN_RW THEN CmdOpenRw
    ELSE IF cmd = CMD_SEEK_BYTE \/ cmd = CMD_SEEK_16 THEN CmdSeek
    ELSE /\ status' = STATUS_READY
         /\ UNCHANGED <<filename, filename_pos, file, dir, dir_entry, dir_entry_pos,
                        seek_pos, dma_addr, block_status, fs>>

\* a decoder that knows only the first seek-to-cursor opcode
HandleCommand_Seek16Ignored(cmd) ==
    IF cmd = CMD_OPEN_READ THEN CmdOpenRead
    ELSE IF cmd = CMD_CREATE THEN CmdCreate
    ELSE IF cmd = CMD_OPEN_APPEND THEN CmdOpenAppend
    ELSE IF cmd = CMD_SEEK_START THEN CmdSeekStart
    ELSE IF cmd = CMD_CLOSE THEN CmdClose
    ELSE IF cmd = CMD_DIR THEN CmdDir
    ELSE IF cmd = CMD_OPEN_RW THEN CmdOpenRw
    ELSE IF cmd = CMD_SEEK_BYTE THEN CmdSeek
    ELSE UNCHANGED <<sdState, fs>>

HandleCommand(cmd) ==
    IF cmd = CMD_OPEN_READ THEN CmdOpenRead
    ELSE IF cmd = CMD_CREATE THEN CmdCreate
    ELSE IF cmd = CMD_OPEN_APPEND THEN CmdOpenAppend
    ELSE IF cmd = CMD_SEEK_START THEN CmdSeekStart
    ELSE IF cmd = CMD_CLOSE THEN CmdClose
    ELSE IF cmd = CMD_DIR THEN CmdDir
    ELSE IF cmd = CMD_OPEN_RW THEN CmdOpenRw
    ELSE IF cmd = CMD_SEEK_BYTE \/ cmd = CMD_SEEK_16 THEN CmdSeek
    ELSE UNCHANGED <<sdState, fs>>

----------------------------------------------------------------------------
(* do_block_read / do_block_write                                          *)

\* file.read(&mut buffer) returns Ok: the handle is readable and is a file
BlockReadOk(h) == h.rd /\ Exists(h.name)

\* a block-read that reports success when it finds no file to read
DoBlockRead_SuccessWithoutFile ==
    IF cpu_mem /\ file # None /\ BlockReadOk(file[1])
    THEN LET h == file[1]
             n == Min(Remaining(h), BLOCK_SIZE)
         IN  /\ mem' = MemAfterBlock(dma_addr, ReadBuffer(h, n))
             /\ file' = Some([h EXCEPT !.pos = @ + n])
             /\ block_status' = 0
             /\ UNCHANGED fs
    ELSE /\ block_status' = IF file = None THEN 0 ELSE 1
         /\ UNCHANGED <<mem, file, fs>>

\* a block-read that retires the file when it reads fewer than 128 bytes
DoBlockRead_RetiresAtEnd ==
    IF cpu_mem /\ file # None /\ BlockReadOk(file[1])
    THEN LET h == file[1]
             n == Min(Remaining(h), BLOCK_SIZE)
         IN  /\ mem' = MemAfterBlock(dma_addr, ReadBuffer(h, n))
             /\ file' = IF n < BLOCK_SIZE THEN None ELSE Some([h EXCEPT !.pos = @ + n])
             /\ block_status' = 0
             /\ UNCHANGED fs
    ELSE /\ block_status' = 1
         /\ UNCHANGED <<mem, file, fs>>

DoBlockRead ==
    IF cpu_mem /\ file # None /\ BlockReadOk(file[1])
    THEN LET h == file[1]
             n == Min(Remaining(h), BLOCK_SIZE)
         IN  /\ mem' = MemAfterBlock(dma_addr, ReadBuffer(h, n))
             /\ file' = Some([h EXCEPT !.pos = @ + n])
             /\ block_status' = 0
             /\ UNCHANGED fs
    ELSE /\ block_status' = 1
         /\ UNCHANGED <<mem, file, fs>>

\* a block-write that reports success whatever file.write_all returns
DoBlockWrite_IgnoresWriteError ==
    /\ (cpu_mem /\ file # None /\ file[1].wr) => file[1].pos < MaxFileLen
    /\ IF cpu_mem /\ file # None
       THEN LET h == file[1]
                buffer == WriteBuffer(dma_addr)
            IN  /\ fs' = FsAfterWrite(h, buffer)
                /\ file' = Some(HandleAfterWrite(h, buffer))
                /\ block_status' = 0
       ELSE /\ block_status' = 1
            /\ UNCHANGED <<file, fs>>
    /\ UNCHANGED mem

DoBlockWrite ==
    /\ (cpu_mem /\ file # None /\ file[1].wr) => file[1].pos < MaxFileLen
    /\ IF cpu_mem /\ file # None
       THEN LET h == file[1]
                buffer == WriteBuffer(dma_addr)
            IN  /\ fs' = FsAfterWrite(h, buffer)
                /\ file' = Some(HandleAfterWrite(h, buffer))
                /\ block_status' = IF h.wr THEN 0 ELSE 1
       ELSE /\ block_status' = 1
            /\ UNCHANGED <<file, fs>>
    /\ UNCHANGED mem

----------------------------------------------------------------------------
(* read_port: one definition per arm; last' holds the byte returned.       *)

\* DATA reported only while the open file still has bytes to read
StatusByte_WhileBytesRemain ==
    IF (file # None /\ Remaining(file[1]) > 0) \/ dir # None
    THEN OrBit(status, STATUS_DATA)
    ELSE status

\* the byte a status-port read returns
StatusByte ==
    IF file # None \/ dir # None THEN OrBit(status, STATUS_DATA) ELSE status

\* the access that produced the state: `was` is the status byte the guest
\* would have read just before it
Returned(port, val) == [op |-> "r", port |-> port, val |-> val, was |-> StatusByte]
Written(port, val) == [op |-> "w", port |-> port, val |-> val, was |-> StatusByte]

\* SdCard::set_cpu_mem
SetCpuMem ==
    /\ ~cpu_mem
    /\ cpu_mem' = TRUE
    /\ last' = [op |-> "bind", port |-> 0, val |-> 0, was |-> StatusByte]
    /\ UNCHANGED <<sdState, mem, fs, root_ok>>

ReadStatus ==
    /\ last' = Returned(SD_STATUS_PORT, StatusByte)
    /\ UNCHANGED <<sdState, hostState>>

\* what a read yields in place of a byte when an index is out of bounds and
\* the emulator panics
FAULT == 256

\* text.as_bytes()[pos]
ByteAt(text, pos) == IF pos < Len(text) THEN text[pos + 1] ELSE FAULT

\* the byte the directory branch returns: the next byte of the pending entry,
\* or the first byte of the next entry that is not "." or "..", or 0 at the end
\* a directory branch that fetches the next entry only once the position is
\* past the end of the pending text
DirByte_FetchWhenPast ==
    IF dir_entry_pos > Len(dir_entry)
    THEN LET rest == SkipDots(dir[1])
         IN  IF rest = << >> THEN 0 ELSE ByteAt(FormatEntry(Head(rest)), 0)
    ELSE ByteAt(dir_entry, dir_entry_pos)

DirByte ==
    IF dir_entry_pos >= Len(dir_entry)
    THEN LET rest == SkipDots(dir[1])
         IN  IF rest = << >> THEN 0 ELSE ByteAt(FormatEntry(Head(rest)), 0)
    ELSE ByteAt(dir_entry, dir_entry_pos)

\* the byte a data-port read returns: the file is tried first, then the directory
DataByte ==
    IF file # None
    THEN IF ReadOk(file[1]) THEN fs[file[1].name][file[1].pos + 1] ELSE 0
    ELSE IF dir # None THEN DirByte
    ELSE 0

ReadDataFile ==
    LET h == file[1]
    IN  IF ReadOk(h)
        THEN /\ file' = Some([h EXCEPT !.pos = @ + 1])
             /\ UNCHANGED status
        ELSE /\ file' = None
             /\ status' = STATUS_READY

\* a directory branch that reports the end without retiring the enumeration
ReadDataDir_NeverCloses ==
    IF dir_entry_pos >= Len(dir_entry)
    THEN LET rest == SkipDots(dir[1])
         IN  IF rest = << >>
             THEN /\ dir' = Some(<< >>)
                  /\ status' = STATUS_READY
                  /\ UNCHANGED <<dir_entry, dir_entry_pos>>
             ELSE /\ dir' = Some(Tail(rest))
                  /\ dir_entry' = FormatEntry(Head(rest))
                  /\ dir_entry_pos' = 1
                  /\ UNCHANGED status
    ELSE /\ dir_entry_pos' = dir_entry_pos + 1
         /\ UNCHANGED <<dir, dir_entry, status>>

ReadDataDir ==
    IF dir_entry_pos >= Len(dir_entry)
    THEN LET rest == SkipDots(dir[1])
         IN  IF rest = << >>
             THEN /\ dir' = None
                  /\ status' = STATUS_READY
                  /\ UNCHANGED <<dir_entry, dir_entry_pos>>
             ELSE /\ dir' = Some(Tail(rest))
                  /\ dir_entry' = FormatEntry(Head(rest))
                  /\ dir_entry_pos' = 1
                  /\ UNCHANGED status
    ELSE /\ dir_entry_pos' = dir_entry_pos + 1
         /\ UNCHANGED <<dir, dir_entry, status>>

\* a data-port read that stores READY when it finds nothing open
ReadData_IdleSetsReady ==
    /\ last' = Returned(SD_DATA_PORT, DataByte)
    /\ IF file # None
       THEN ReadDataFile /\ UNCHANGED <<dir, dir_entry, dir_entry_pos>>
       ELSE IF dir # None
       THEN ReadDataDir /\ UNCHANGED file
       ELSE status' = STATUS_READY /\ UNCHANGED <<file, dir, dir_entry, dir_entry_pos>>
    /\ UNCHANGED <<filename, filename_pos, seek_pos, dma_addr, block_status, hostState>>

ReadData ==
    /\ last' = Returned(SD_DATA_PORT, DataByte)
    /\ IF file # None
       THEN ReadDataFile /\ UNCHANGED <<dir, dir_entry, dir_entry_pos>>
       ELSE IF dir # None
       THEN ReadDataDir /\ UNCHANGED file
       ELSE UNCHANGED <<file, status, dir, dir_entry, dir_entry_pos>>
    /\ UNCHANGED <<filename, filename_pos, seek_pos, dma_addr, block_status, hostState>>

ReadBlockStatus ==
    /\ last' = Returned(SD_BLOCK_CMD, block_status)
    /\ UNCHANGED <<sdState, hostState>>

\* a default read arm that returns 0
ReadUnmapped_ReturnsZero(port) ==
    /\ last' = Returned(port, 0)
    /\ UNCHANGED <<sdState, hostState>>

ReadUnmapped(port) ==
    /\ last' = Returned(port, UNMAPPED_READ)
    /\ UNCHANGED <<sdState, hostState>>

ReadPort(port) ==
    IF port = SD_STATUS_PORT THEN ReadStatus
    ELSE IF port = SD_DATA_PORT THEN ReadData
    ELSE IF port = SD_BLOCK_CMD THEN ReadBlockStatus
    ELSE ReadUnmapped(port)

----------------------------------------------------------------------------
(* write_port: one definition per arm.                                     *)

WriteCmd(val) ==
    /\ HandleCommand(val)
    /\ UNCHANGED <<cpu_mem, mem, root_ok>>

\* a data-port write that reports a failed host write in the status register
WriteData_ErrorOnFailure(val) ==
    /\ (file # None /\ file[1].wr) => file[1].pos < MaxFileLen
    /\ IF file # None
       THEN /\ fs' = FsAfterWrite(file[1], <<val>>)
            /\ file' = Some(HandleAfterWrite(file[1], <<val>>))
            /\ status' = IF file[1].wr THEN status ELSE ErrorReady
       ELSE UNCHANGED <<fs, file, status>>
    /\ UNCHANGED <<filename, filename_pos, dir, dir_entry, dir_entry_pos,
                   seek_pos, dma_addr, block_status, cpu_mem, mem, root_ok>>

WriteData(val) ==
    /\ (file # None /\ file[1].wr) => file[1].pos < MaxFileLen
    /\ IF file # None
       THEN /\ fs' = FsAfterWrite(file[1], <<val>>)
            /\ file' = Some(HandleAfterWrite(file[1], <<val>>))
       ELSE UNCHANGED <<fs, file>>
    /\ UNCHANGED <<filename, filename_pos, status, dir, dir_entry, dir_entry_pos,
                   seek_pos, dma_addr, block_status, cpu_mem, mem, root_ok>>

WriteFname(val) ==
    /\ IF val = 0
       THEN /\ filename_pos' = 0
            /\ UNCHANGED filename
       ELSE /\ filename' = Append(filename, val)
            /\ filename_pos' = filename_pos + 1
    /\ UNCHANGED <<file, status, dir, dir_entry, dir_entry_pos, seek_pos, dma_addr,
                   block_status, hostState>>

WriteSeekLo(val) ==
    /\ seek_pos' = SetSeekLo(seek_pos, val)
    /\ UNCHANGED <<filename, filename_pos, file, status, dir, dir_entry,
                   dir_entry_pos, dma_addr, block_status, hostState>>

WriteSeekHi(val) ==
    /\ seek_pos' = SetSeekHi(seek_pos, val)
    /\ UNCHANGED <<filename, filename_pos, file, status, dir, dir_entry,
                   dir_entry_pos, dma_addr, block_status, hostState>>

WriteSeekEx(val) ==
    /\ seek_pos' = SetSeekEx(seek_pos, val)
    /\ UNCHANGED <<filename, filename_pos, file, status, dir, dir_entry,
                   dir_entry_pos, dma_addr, block_status, hostState>>

WriteDmaLo(val) ==
    /\ dma_addr' = SetDmaLo(dma_addr, val)
    /\ UNCHANGED <<filename, filename_pos, file, status, dir, dir_entry,
                   dir_entry_pos, seek_pos, block_status, hostState>>

WriteDmaHi(val) ==
    /\ dma_addr' = SetDmaHi(dma_addr, val)
    /\ UNCHANGED <<filename, filename_pos, file, status, dir, dir_entry,
                   dir_entry_pos, seek_pos, block_status, hostState>>

\* a block command that copies the outcome of the transfer into the status
\* register
WriteBlockCmd_SetsStatus(val) ==
    /\ IF val = 0 THEN DoBlockRead ELSE DoBlockWrite
    /\ status' = IF block_status' = 0 THEN STATUS_READY ELSE ErrorReady
    /\ UNCHANGED <<filename, filename_pos, dir, dir_entry, dir_entry_pos,
                   seek_pos, dma_addr, cpu_mem, root_ok>>

WriteBlockCmd(val) ==
    /\ IF val = 0 THEN DoBlockRead ELSE DoBlockWrite
    /\ UNCHANGED <<filename, filename_pos, status, dir, dir_entry, dir_entry_pos,
                   seek_pos, dma_addr, cpu_mem, root_ok>>

WriteUnmapped ==
    UNCHANGED <<sdState, hostState>>

\* a decoder with the seek-extended arm at the DMA-low port's address and the
\* DMA and block arms each one address higher
WritePort_SeekLanesAdjacent(port, val) ==
    /\ last' = Written(port, val)
    /\ IF port = SD_CMD_PORT THEN WriteCmd(val)
       ELSE IF port = SD_DATA_PORT THEN WriteData(val)
       ELSE IF port = SD_FNAME_PORT THEN WriteFname(val)
       ELSE IF port = SD_SEEK_LO THEN WriteSeekLo(val)
       ELSE IF port = SD_SEEK_HI THEN WriteSeekHi(val)
       ELSE IF port = SD_DMA_LO THEN WriteSeekEx(val)
       ELSE IF port = SD_DMA_HI THEN WriteDmaLo(val)
       ELSE IF port = SD_BLOCK_CMD THEN WriteDmaHi(val)
       ELSE IF port = SD_SEEK_EX THEN WriteBlockCmd(val)
       ELSE WriteUnmapped

WritePort(port, val) ==
    /\ last' = Written(port, val)
    /\ IF port = SD_CMD_PORT THEN WriteCmd(val)
       ELSE IF port = SD_DATA_PORT THEN WriteData(val)
       ELSE IF port = SD_FNAME_PORT THEN WriteFname(val)
       ELSE IF port = SD_SEEK_LO THEN WriteSeekLo(val)
       ELSE IF port = SD_SEEK_HI THEN WriteSeekHi(val)
       ELSE IF port = SD_SEEK_EX THEN WriteSeekEx(val)
       ELSE IF port = SD_DMA_LO THEN WriteDmaLo(val)
       ELSE IF port = SD_DMA_HI THEN WriteDmaHi(val)
       ELSE IF port = SD_BLOCK_CMD THEN WriteBlockCmd(val)
       ELSE WriteUnmapped

\* the commands that join the pending filename to the storage root
OpenCmds == {CMD_OPEN_READ, CMD_CREATE, CMD_OPEN_APPEND, CMD_OPEN_RW}

\* SdCard::handles_port
HandlesPort(port) ==
    port \in {SD_CMD_PORT, SD_STATUS_PORT, SD_DATA_PORT, SD_FNAME_PORT, SD_SEEK_LO,
              SD_SEEK_HI, SD_SEEK_EX, SD_DMA_LO, SD_DMA_HI, SD_BLOCK_CMD}

----------------------------------------------------------------------------
(* The guest driving the file protocol: commands, the filename port, the   *)
(* data port both ways and status polls.                                   *)

Access ==
    \/ \E val \in CmdVals : WritePort(SD_CMD_PORT, val)
    \/ \E val \in NameChars \cup {0} :
          /\ val # 0 => (Len(filename) < MaxNameLen /\ filename_pos < MaxNameLen)
          /\ WritePort(SD_FNAME_PORT, val)
    \/ \E val \in DataVals : WritePort(SD_DATA_PORT, val)
    \/ ReadPort(SD_DATA_PORT)
    \/ ReadPort(SD_STATUS_PORT)

Next == Access /\ UNCHANGED guest

Spec == Init /\ [][Next]_vars

----------------------------------------------------------------------------
(* The guest running a fixed sequence after at most MaxPrelude arbitrary   *)
(* accesses.  Both sequences start with a create that succeeds on the      *)
(* pending filename and write the bytes of B to the data port; then        *)
(*   "roundtrip": close, the same filename, open-read, |B| + 1 data reads; *)
(*   "readback":  seek-to-start, |B| data reads.                           *)

\* every sequence over S of length at most n
SeqsUpTo(S, n) == UNION {[1 .. k -> S] : k \in 0 .. n}

Prelude ==
    /\ guest.pc = "free"
    /\ guest.n < MaxPrelude
    /\ Access
    /\ guest' = [guest EXCEPT !.n = @ + 1]

StartSequence ==
    /\ guest.pc = "free"
    /\ CreateOk(filename)
    /\ \E kind \in {"roundtrip", "readback"} : \E B \in SeqsUpTo(SequenceVals, MaxFileLen) :
          guest' = [pc |-> "write", kind |-> kind, name |-> filename,
                    old |-> IF Exists(filename) THEN Len(fs[filename]) ELSE 0,
                    B |-> B, n |-> 0, got |-> << >>, extra |-> 0,
                    busy |-> file # None]
    /\ WritePort(SD_CMD_PORT, CMD_CREATE)

WriteNextByte ==
    /\ guest.pc = "write"
    /\ guest.n < Len(guest.B)
    /\ WritePort(SD_DATA_PORT, guest.B[guest.n + 1])
    /\ guest' = [guest EXCEPT !.n = @ + 1]

CloseAfterWrite ==
    /\ guest.pc = "write" /\ guest.kind = "roundtrip"
    /\ guest.n = Len(guest.B)
    /\ WritePort(SD_CMD_PORT, CMD_CLOSE)
    /\ guest' = [guest EXCEPT !.pc = "name", !.n = 0]

\* the zero terminator, which a guest may also write before the name
TerminateName ==
    /\ guest.pc = "name"
    /\ guest.n \in {0, Len(guest.name)}
    /\ filename_pos # 0
    /\ WritePort(SD_FNAME_PORT, 0)
    /\ UNCHANGED guest

WriteNameChar ==
    /\ guest.pc = "name"
    /\ guest.n < Len(guest.name)
    /\ WritePort(SD_FNAME_PORT, guest.name[guest.n + 1])
    /\ guest' = [guest EXCEPT !.n = @ + 1]

OpenForRead ==
    /\ guest.pc = "name"
    /\ guest.n = Len(guest.name)
    /\ WritePort(SD_CMD_PORT, CMD_OPEN_READ)
    /\ guest' = [guest EXCEPT !.pc = "read", !.n = 0]

SeekToStart ==
    /\ guest.pc = "write" /\ guest.kind = "readback"
    /\ guest.n = Len(guest.B)
    /\ WritePort(SD_CMD_PORT, CMD_SEEK_START)
    /\ guest' = [guest EXCEPT !.pc = "read", !.n = 0]

ReadBack ==
    /\ guest.pc = "read"
    /\ guest.n < Len(guest.B)
    /\ ReadPort(SD_DATA_PORT)
    /\ guest' = [guest EXCEPT !.n = @ + 1, !.got = Append(@, last'.val),
                              !.pc = IF guest.kind = "readback" /\ guest.n + 1 = Len(guest.B)
                                     THEN "done" ELSE "read"]

ReadPastEnd ==
    /\ guest.pc = "read" /\ guest.kind = "roundtrip"
    /\ guest.n = Len(guest.B)
    /\ ReadPort(SD_DATA_PORT)
    /\ guest' = [guest EXCEPT !.pc = "done", !.extra = last'.val]

NextSequence ==
    \/ Prelude
    \/ StartSequence
    \/ WriteNextByte
    \/ CloseAfterWrite
    \/ TerminateName
    \/ WriteNameChar
    \/ OpenForRead
    \/ SeekToStart
    \/ ReadBack
    \/ ReadPastEnd

SpecSequence == Init /\ [][NextSequence]_vars

----------------------------------------------------------------------------
(* The guest streaming a directory.  The storage root holds up to two      *)
(* files.  After at most MaxPrelude arbitrary accesses the guest either    *)
(*   "listing": issues list-directory and reads the data port two times    *)
(*              more than the listing has bytes, or                        *)
(*   "drain":   finds an enumeration open and only reads the data port     *)
(*              from then on.                                              *)

File_b == <<98>>

InitFsListing ==
    { [n \in {} |-> << >>],
      [n \in {File_a} |-> <<7>>],
      [n \in {File_a, File_b} |-> << >>],
      [n \in {File_a, File_b} |-> IF n = File_a THEN <<7>> ELSE << >>] }

InitListing ==
    /\ filename = << >>
    /\ filename_pos = 0
    /\ file = None
    /\ status = STATUS_READY
    /\ dir = None
    /\ dir_entry = << >>
    /\ dir_entry_pos = 0
    /\ seek_pos = 0
    /\ dma_addr = DMA_DEFAULT
    /\ block_status = 0
    /\ cpu_mem = FALSE
    /\ mem \in InitMem
    /\ root_ok \in BOOLEAN
    /\ fs \in (IF root_ok THEN InitFsListing ELSE {[n \in {} |-> << >>]})
    /\ last = [op |-> "init", port |-> 0, val |-> 0, was |-> 0]
    /\ guest = GuestFree

\* name + CR + LF for every entry that is not "." or "..", in the order given
RECURSIVE ListingBytes(_)
ListingBytes(entries) ==
    IF entries = << >> THEN << >>
    ELSE (IF Head(entries) \in {Dot, DotDot} THEN << >> ELSE FormatEntry(Head(entries)))
         \o ListingBytes(Tail(entries))

StartListing ==
    /\ guest.pc = "free"
    /\ root_ok
    /\ WritePort(SD_CMD_PORT, CMD_DIR)
    /\ guest' = [GuestFree EXCEPT !.pc = "read", !.kind = "listing",
                                  !.B = ListingBytes(dir'[1]), !.busy = file # None,
                                  !.old = IF dir # None THEN 1 ELSE 0,
                                  !.extra = IF dir # None /\ dir_entry_pos < Len(dir_entry)
                                            THEN dir_entry_pos ELSE 0]

ReadListing ==
    /\ guest.pc = "read" /\ guest.kind = "listing"
    /\ ReadPort(SD_DATA_PORT)
    /\ guest' = [guest EXCEPT !.n = @ + 1, !.got = Append(@, last'.val),
                              !.pc = IF guest.n + 1 = Len(guest.B) + 2
                                     THEN "done" ELSE "read"]

StartDrain ==
    /\ guest.pc = "free"
    /\ dir # None
    /\ ReadPort(SD_DATA_PORT)
    /\ guest' = [GuestFree EXCEPT !.pc = "drain", !.kind = "drain",
                                  !.busy = file # None]

DrainRead ==
    /\ guest.pc = "drain"
    /\ ReadPort(SD_DATA_PORT)
    /\ UNCHANGED guest

NextListing ==
    \/ Prelude
    \/ StartListing
    \/ ReadListing
    \/ StartDrain
    \/ DrainRead

\* a guest that has begun to drain keeps reading
SpecListing == InitListing /\ [][NextListing]_vars /\ WF_vars(DrainRead)

----------------------------------------------------------------------------
(* The guest naming a file.  After at most MaxPrelude arbitrary accesses   *)
(* it issues an open command, writes up to MaxTyped bytes to the filename  *)
(* port and issues a second open command; guest.old is the length of the   *)
(* filename pending before the first command, guest.B the bytes written    *)
(* between the two and guest.name the filename the second command joins    *)
(* to the storage root.                                                    *)

ConsumeName ==
    /\ guest.pc = "free"
    /\ \E c \in OpenCmds : WritePort(SD_CMD_PORT, c)
    /\ guest' = [GuestFree EXCEPT !.pc = "type", !.kind = "typing",
                                  !.old = Len(filename), !.busy = file # None]

TypeByte ==
    /\ guest.pc = "type"
    /\ guest.n < MaxTyped
    /\ \E val \in TypedVals :
          /\ WritePort(SD_FNAME_PORT, val)
          /\ guest' = [guest EXCEPT !.n = @ + 1, !.B = Append(@, val)]

OpenTyped ==
    /\ guest.pc = "type"
    /\ \E c \in OpenCmds : WritePort(SD_CMD_PORT, c)
    /\ guest' = [guest EXCEPT !.pc = "done", !.name = filename]

NextName ==
    \/ Prelude
    \/ ConsumeName
    \/ TypeByte
    \/ OpenTyped

SpecName == Init /\ [][NextName]_vars

----------------------------------------------------------------------------
(* The guest using every port of the peripheral, both ways, and the        *)
(* emulator binding the guest memory, for at most MaxAccesses steps;       *)
(* guest.n counts them.                                                    *)

\* the peripheral ports whose reads fall to the default arm of read_port
WriteOnlyPorts == {SD_CMD_PORT, SD_FNAME_PORT, SD_SEEK_LO, SD_SEEK_HI, SD_SEEK_EX,
                   SD_DMA_LO, SD_DMA_HI}

AnyAccess ==
    \/ Access
    \/ \E val \in SeekVals : WritePort(SD_SEEK_LO, val)
    \/ \E val \in SeekVals : WritePort(SD_SEEK_HI, val)
    \/ \E val \in SeekVals : WritePort(SD_SEEK_EX, val)
    \/ \E val \in DmaVals : WritePort(SD_DMA_LO, val)
    \/ \E val \in DmaVals : WritePort(SD_DMA_HI, val)
    \/ \E val \in {0, 1} : WritePort(SD_BLOCK_CMD, val)
    \/ ReadPort(SD_BLOCK_CMD)
    \/ \E port \in OtherPorts \cup WriteOnlyPorts : ReadPort(port)
    \/ \E port \in OtherPorts \cup {SD_STATUS_PORT} : WritePort(port, 0)
    \/ SetCpuMem

NextDevice ==
    /\ guest.n < MaxAccesses
    /\ AnyAccess
    /\ guest' = [guest EXCEPT !.n = @ + 1]

SpecDevice == Init /\ [][NextDevice]_vars

----------------------------------------------------------------------------
(* The guest moving blocks.  Guest memory holds a few non-zero bytes, at   *)
(* both ends of the address space and inside the default window, and the   *)
(* file "a" up to three bytes.  While it sets up, the emulator may bind    *)
(* the memory and the guest writes the DMA address, names the file and     *)
(* opens it or a directory listing; then it triggers up to MaxTransfers    *)
(* block reads, block writes and seeks to the start.                       *)

InitMemBlock ==
    { [a \in {} |-> 0],
      [a \in {0, 127, 128, 129, 255, 65535} |-> (a % 5) + 1] }

InitFsBlock ==
    { [n \in {File_a} |-> << >>],
      [n \in {File_a} |-> <<7>>],
      [n \in {File_a} |-> <<7, 0, 9>>] }

InitBlock ==
    /\ filename = << >>
    /\ filename_pos = 0
    /\ file = None
    /\ status = STATUS_READY
    /\ dir = None
    /\ dir_entry = << >>
    /\ dir_entry_pos = 0
    /\ seek_pos = 0
    /\ dma_addr = DMA_DEFAULT
    /\ block_status = 0
    /\ cpu_mem = FALSE
    /\ mem \in InitMemBlock
    /\ root_ok = TRUE
    /\ fs \in InitFsBlock
    /\ last = [op |-> "init", port |-> 0, val |-> 0, was |-> 0]
    /\ guest = GuestFree

SetUpTransfer ==
    /\ guest.pc = "free"
    /\ \/ SetCpuMem
       \/ \E val \in DmaVals : WritePort(SD_DMA_LO, val)
       \/ \E val \in DmaVals : WritePort(SD_DMA_HI, val)
       \/ \E val \in NameChars :
             /\ Len(filename) < MaxNameLen /\ filename_pos < MaxNameLen
             /\ WritePort(SD_FNAME_PORT, val)
       \/ \E c \in OpenCmds \cup {CMD_DIR} : WritePort(SD_CMD_PORT, c)
    /\ UNCHANGED guest

Transfer ==
    /\ guest.n < MaxTransfers
    /\ \/ WritePort(SD_BLOCK_CMD, 0)
       \/ WritePort(SD_BLOCK_CMD, 1)
       \/ WritePort(SD_CMD_PORT, CMD_SEEK_START)
    /\ guest' = [guest EXCEPT !.pc = "transfer", !.n = @ + 1]

NextBlock ==
    \/ SetUpTransfer
    \/ Transfer

SpecBlock == InitBlock /\ [][NextBlock]_vars

----
(* Properties.  A step is named by the access it leaves in last'.          *)

CmdDone(c) == last.op = "w" /\ last.port = SD_CMD_PORT /\ last.val = c
CmdStep(c) == last'.op = "w" /\ last'.port = SD_CMD_PORT /\ last'.val = c
ReadStep(port) == last'.op = "r" /\ last'.port = port
RecognisedCmds == {CMD_OPEN_READ, CMD_CREATE, CMD_OPEN_APPEND, CMD_SEEK_START,
                   CMD_CLOSE, CMD_DIR, CMD_OPEN_RW, CMD_SEEK_BYTE, CMD_SEEK_16}
StatusBytes == {r + e + d : r \in {0, STATUS_READY}, e \in {0, STATUS_ERROR},
                            d \in {0, STATUS_DATA}}

\* C1: at most one session is active: never an open file together with an
\* open directory enumeration.
C1_AtMostOneSession == ~(file # None /\ dir # None)

\* C4: an open-read naming a file that does not exist, issued in any state,
\* leaves the status byte ERROR|READY with DATA clear, and the data-port read
\* that follows it returns 0.
C4_OpenReadMissingFile ==
    [][(CmdStep(CMD_OPEN_READ) /\ filename # << >> /\ ~Exists(filename))
         => (status' = ErrorReady /\ StatusByte' = ErrorReady /\ DataByte' = 0)]_vars

\* C5: READY is set in the status register, and so in the byte a status-port
\* read returns, in every reachable state.
C5_ReadyAlwaysSet ==
    HasBit(status, STATUS_READY) /\ HasBit(StatusByte, STATUS_READY)

\* a command has failed and READY is still set
C5_Witness ==
    /\ last.op = "w" /\ last.port = SD_CMD_PORT
    /\ HasBit(status, STATUS_ERROR) /\ HasBit(status, STATUS_READY)

\* the outcome of the command that produced the state: an open command
\* succeeded iff it left a file open, a seek iff a file is open, list-directory
\* iff it left an enumeration open; close always succeeds
Succeeded(c) ==
    IF c \in OpenCmds \cup {CMD_SEEK_START, CMD_SEEK_BYTE, CMD_SEEK_16} THEN file # None
    ELSE IF c = CMD_DIR THEN dir # None
    ELSE c = CMD_CLOSE

\* C6: every recognised command that succeeds leaves the status register
\* equal to READY, whatever it was before, so ERROR is cleared without a reset.
C6_SuccessLeavesReady ==
    \A c \in RecognisedCmds : (CmdDone(c) /\ Succeeded(c)) => status = STATUS_READY

\* a create succeeded on a peripheral whose status byte had ERROR set
C6_Witness ==
    /\ CmdDone(CMD_CREATE) /\ Succeeded(CMD_CREATE)
    /\ HasBit(last.was, STATUS_ERROR)
    /\ status = STATUS_READY

\* C7: between commands the ERROR bit is stable: no port access other than a
\* command-port write changes it.
C7_ErrorChangedOnlyByCommands ==
    [][~(last'.op = "w" /\ last'.port = SD_CMD_PORT)
         => (HasBit(status', STATUS_ERROR) <=> HasBit(status, STATUS_ERROR))]_vars

\* C8: a status-port read returns DATA (bit 7) iff a file or a directory
\* enumeration is open, sets no bit besides READY, ERROR and DATA, and changes
\* no state.
C8_StatusRead ==
    [][ReadStep(SD_STATUS_PORT)
         => /\ HasBit(last'.val, STATUS_DATA) <=> (file # None \/ dir # None)
            /\ last'.val \in StatusBytes
            /\ UNCHANGED <<sdState, hostState>>]_vars

\* a status read reported DATA for an open file with no byte left to read
C8_Witness ==
    /\ last.op = "r" /\ last.port = SD_STATUS_PORT
    /\ HasBit(last.val, STATUS_DATA)
    /\ file # None /\ Remaining(file[1]) = 0

\* C9: a data-port read that finds a file of the storage directory open
\* whose stream is exhausted or unreadable returns 0, leaves no file and no
\* directory open (DATA clear) and leaves ERROR clear.
C9_EndOfFileClosesSession ==
    [][(ReadStep(SD_DATA_PORT) /\ file # None /\ Exists(file[1].name) /\ ~ReadOk(file[1]))
         => /\ last'.val = 0
            /\ file' = None /\ dir' = None
            /\ ~HasBit(StatusByte', STATUS_DATA)
            /\ ~HasBit(status', STATUS_ERROR)]_vars

\* the first byte of the listing an open enumeration will stream (0 at its end)
FirstListingByte ==
    LET rest == SkipDots(dir[1])
    IN  IF rest = << >> THEN 0 ELSE FormatEntry(Head(rest))[1]

\* C10: a successful list-directory issued while a file of the storage
\* directory is open releases that file, and the data-port read that follows
\* returns the listing's byte, not the file's.
C10_DirReplacesFile ==
    [][(CmdStep(CMD_DIR) /\ file # None /\ Exists(file[1].name) /\ dir' # None)
         => (file' = None /\ DataByte' = FirstListingByte')]_vars

\* every byte read back so far is the byte of B at its position
ReadBackMatches == guest.got = SubSeq(guest.B, 1, Len(guest.got))

\* C2: create(name), the bytes of B written to the data port, close,
\* open-read(name) and |B| data-port reads return exactly B in order, also
\* over a longer file of that name; the next read returns 0 and leaves
\* nothing open.
C2_RoundTrip ==
    (guest.kind = "roundtrip" /\ guest.pc \in {"read", "done"})
        => /\ ReadBackMatches
           /\ guest.pc = "done"
                => /\ guest.got = guest.B
                   /\ guest.extra = 0
                   /\ file = None /\ dir = None

\* the round trip has finished for a non-empty B shorter than the file the
\* create replaced
C2_Witness ==
    /\ guest.kind = "roundtrip" /\ guest.pc = "done"
    /\ guest.B # << >>
    /\ guest.old > Len(guest.B)

\* C3: after a successful create, N data-port writes and seek-to-start, the
\* next N data-port reads return the N bytes written.
C3_ReadBackAfterCreate ==
    (guest.kind = "readback" /\ guest.pc \in {"read", "done"})
        => /\ ReadBackMatches
           /\ guest.pc = "done" => guest.got = guest.B

\* the listing followed by the zeros of the reads past its end
ExpectedStream == guest.B \o <<0, 0>>

\* C11: the bytes read from the data port after a successful list-directory
\* are name + CR + LF of every entry but "." and "..", in enumeration order;
\* the read after the last byte returns 0 and leaves status READY with the
\* directory closed and DATA clear, and the read after that returns 0 too.
C11_ListingStream ==
    guest.kind = "listing"
        => /\ guest.got = SubSeq(ExpectedStream, 1, Len(guest.got))
           /\ guest.n > Len(guest.B)
                => /\ status = STATUS_READY
                   /\ dir = None
                   /\ ~HasBit(StatusByte, STATUS_DATA)

\* the same for a list-directory issued with no file open
C11_ListingStreamNoFile == guest.busy \/ C11_ListingStream

\* C12: a guest that finds an enumeration open and from then on only reads
\* the data port reaches a state with the directory closed and DATA clear;
\* and a closed enumeration is opened again only by a list-directory command.
C12_ListingEnds ==
    /\ (guest.pc = "drain") ~> (dir = None /\ ~HasBit(StatusByte, STATUS_DATA))
    /\ [][(dir = None /\ dir' # None) => CmdStep(CMD_DIR)]_vars

\* a draining guest has read the enumeration to its end
C12_Witness ==
    /\ guest.pc = "drain"
    /\ last.op = "r" /\ last.port = SD_DATA_PORT /\ last.val = 0
    /\ dir = None /\ file = None

\* the bytes of a sequence that are not the zero terminator
RECURSIVE NonZero(_)
NonZero(bytes) ==
    IF bytes = << >> THEN << >>
    ELSE (IF Head(bytes) = 0 THEN << >> ELSE <<Head(bytes)>>) \o NonZero(Tail(bytes))

\* the bytes of a sequence that follow its last zero terminator
RECURSIVE AfterLastZero(_)
AfterLastZero(bytes) ==
    IF bytes = << >> THEN << >>
    ELSE IF bytes[Len(bytes)] = 0 THEN << >>
    ELSE Append(AfterLastZero(SubSeq(bytes, 1, Len(bytes) - 1)), bytes[Len(bytes)])

\* C13: each of the four open commands, succeeding or failing, leaves the
\* pending filename empty, and the filename the next open command uses is
\* made of the bytes written to the filename port after it, nothing earlier.
C13_OpenConsumesName ==
    /\ (\E c \in OpenCmds : CmdDone(c)) => filename = << >>
    /\ (guest.kind = "typing" /\ guest.pc = "done") => guest.name = NonZero(guest.B)

\* the second open used a name written after a first open that found another
\* name pending
C13_Witness ==
    /\ guest.kind = "typing" /\ guest.pc = "done"
    /\ guest.old > 0
    /\ guest.B # << >> /\ guest.name = guest.B

\* a sequence without the zero terminators that end it
RECURSIVE Unterminated(_)
Unterminated(bytes) ==
    IF bytes # << >> /\ bytes[Len(bytes)] = 0
    THEN Unterminated(SubSeq(bytes, 1, Len(bytes) - 1))
    ELSE bytes

\* C14: the filename an open command uses is the sequence of non-zero bytes
\* written to the filename port since the last open command or, when a zero
\* terminator was followed by further filename bytes, since that terminator:
\* bytes written before an earlier zero terminator are not part of it.
C14_TerminatorStartsName ==
    (guest.kind = "typing" /\ guest.pc = "done")
        => guest.name = AfterLastZero(Unterminated(guest.B))

WriteStep(port) == last'.op = "w" /\ last'.port = port
SeekPorts == {SD_SEEK_LO, SD_SEEK_HI, SD_SEEK_EX}
SeekCmds == {CMD_SEEK_BYTE, CMD_SEEK_16}
Lo(x) == x % 256
Hi(x) == (x \div 256) % 256
Ex(x) == (x \div 65536) % 256

\* C15: a write of a to seek-low, b to seek-high or c to seek-extended sets
\* that lane of the cursor and leaves the other two lanes as they were, no
\* other step changes a lane, so the cursor is a + 256*b + 65536*c of the last
\* bytes written; and the cursor is below 2^24 in every state.
C15_SeekCursorLanes ==
    /\ [](seek_pos < SEEK_LIMIT)
    /\ [][/\ WriteStep(SD_SEEK_LO)
               => seek_pos' = last'.val + 256 * Hi(seek_pos) + 65536 * Ex(seek_pos)
          /\ WriteStep(SD_SEEK_HI)
               => seek_pos' = Lo(seek_pos) + 256 * last'.val + 65536 * Ex(seek_pos)
          /\ WriteStep(SD_SEEK_EX)
               => seek_pos' = Lo(seek_pos) + 256 * Hi(seek_pos) + 65536 * last'.val
          /\ ~(\E port \in SeekPorts : WriteStep(port))
               => <<Lo(seek_pos'), Hi(seek_pos'), Ex(seek_pos')>>
                    = <<Lo(seek_pos), Hi(seek_pos), Ex(seek_pos)>>]_vars

\* all three lanes were written with 1, with another access in between
C15_Witness ==
    /\ seek_pos = 1 + 256 + 65536
    /\ guest.n = MaxAccesses
    /\ last.op = "w" /\ last.port \in SeekPorts

\* C16: only a write to one of the three seek ports changes the seek cursor.
C16_SeekCursorFrame ==
    [][~(\E port \in SeekPorts : WriteStep(port)) => seek_pos' = seek_pos]_vars

\* a seek-to-cursor has used a non-zero cursor and left it in place
C16_Witness ==
    /\ \E c \in SeekCmds : CmdDone(c)
    /\ file # None /\ file[1].pos = seek_pos
    /\ seek_pos # 0

\* what C17 says of a step on an open file h of the storage directory:
\* a seek-to-cursor leaves the handle at offset seek_pos, where the next
\* data-port read finds the byte at that offset, or 0 at or past the end; a
\* data-port read at or past the end returns 0 and retires the file with
\* ERROR clear; a data-port write on a writable handle stores its byte at
\* the handle's offset
SeekPositions(h) ==
    LET content == fs[h.name]
    IN  /\ (\E c \in SeekCmds : CmdStep(c))
            => /\ file' # None /\ file'[1].pos = seek_pos
               /\ DataByte' = IF seek_pos < Len(content) THEN content[seek_pos + 1] ELSE 0
        /\ (ReadStep(SD_DATA_PORT) /\ h.pos >= Len(content))
            => /\ last'.val = 0
               /\ file' = None
               /\ ~HasBit(status', STATUS_ERROR)
        /\ (WriteStep(SD_DATA_PORT) /\ h.wr)
            => fs'[h.name][h.pos + 1] = last'.val

\* C17: with a file open and the cursor equal to k, a seek-to-cursor makes
\* the next data-port read or write operate at offset k of the file, and a
\* read at or beyond the end returns 0 and retires the file without ERROR.
C17_SeekToCursor ==
    [][(file # None /\ Exists(file[1].name)) => SeekPositions(file[1])]_vars

\* the same for files opened with open-read, open-append or open-read-write
C17_SeekToCursorReadable ==
    [][(file # None /\ Exists(file[1].name) /\ file[1].rd) => SeekPositions(file[1])]_vars

\* C18: seek-to-start or seek-to-cursor with no file open stores ERROR|READY
\* in the status register and changes nothing else: not an open enumeration
\* or its pending entry, the cursor, the pending filename, the DMA address,
\* BlockStatus, the storage directory or guest memory.
C18_SeekWithoutFile ==
    [][((\E c \in SeekCmds \cup {CMD_SEEK_START} : CmdStep(c)) /\ file = None)
         => /\ status' = ErrorReady
            /\ UNCHANGED <<filename, filename_pos, file, dir, dir_entry, dir_entry_pos,
                           seek_pos, dma_addr, block_status, hostState>>]_vars

\* a seek-to-start failed with an enumeration open in the middle of an entry
C18_Witness ==
    /\ CmdDone(CMD_SEEK_START)
    /\ file = None /\ dir # None
    /\ 0 < dir_entry_pos /\ dir_entry_pos < Len(dir_entry)
    /\ status = ErrorReady

\* C19: opcodes 0x08 and 0x09 are the same command: every step either of
\* them takes is a step of the other on the same state.
C19_SeekOpcodesAgree ==
    [][/\ CmdStep(CMD_SEEK_BYTE) => WriteCmd(CMD_SEEK_16)
       /\ CmdStep(CMD_SEEK_16) => WriteCmd(CMD_SEEK_BYTE)]_vars

\* opcode 0x09 moved an open file to a non-zero cursor
C19_Witness ==
    /\ CmdDone(CMD_SEEK_16)
    /\ file # None /\ file[1].pos = seek_pos
    /\ seek_pos > 0

\* C20: a close in any state leaves no file and no enumeration open, the
\* status register equal to READY, DATA clear and the data port reading 0,
\* and changes nothing besides the open target and the status register.
C20_CloseNeverFails ==
    [][CmdStep(CMD_CLOSE)
         => /\ file' = None /\ dir' = None
            /\ status' = STATUS_READY
            /\ StatusByte' = STATUS_READY
            /\ DataByte' = 0
            /\ UNCHANGED <<filename, filename_pos, dir_entry, dir_entry_pos, seek_pos,
                           dma_addr, block_status, hostState>>]_vars

\* a close found an enumeration open and ERROR set
C20_Witness ==
    /\ CmdDone(CMD_CLOSE)
    /\ HasBit(last.was, STATUS_DATA) /\ HasBit(last.was, STATUS_ERROR)
    /\ file = None /\ dir = None /\ status = STATUS_READY

\* the file called name holds byte v at offset pos
StoredAt(dirmap, name, pos, v) ==
    /\ name \in DOMAIN dirmap
    /\ pos < Len(dirmap[name])
    /\ dirmap[name][pos + 1] = v

\* C21: with a file of the storage directory open, a data-port write of v
\* stores v at the handle's offset and advances the offset by one; with no
\* file open the write changes no state.
C21_DataWrite ==
    [][WriteStep(SD_DATA_PORT)
         => /\ (file # None /\ Exists(file[1].name))
                 => /\ StoredAt(fs', file[1].name, file[1].pos, last'.val)
                    /\ file' # None /\ file'[1].pos = file[1].pos + 1
            /\ file = None => UNCHANGED <<sdState, hostState>>]_vars

\* the same for handles opened with create, open-append or open-read-write
C21_DataWriteWritable ==
    [][WriteStep(SD_DATA_PORT)
         => /\ (file # None /\ Exists(file[1].name) /\ file[1].wr)
                 => /\ StoredAt(fs', file[1].name, file[1].pos, last'.val)
                    /\ file' # None /\ file'[1].pos = file[1].pos + 1
            /\ file = None => UNCHANGED <<sdState, hostState>>]_vars

\* C22: a data-port write leaves the status register as it was, whether the
\* host write succeeds, fails or there is nothing to write to.
C22_DataWriteKeepsStatus ==
    [][WriteStep(SD_DATA_PORT) => status' = status]_vars

\* a data-port write failed on a read-only handle
C22_Witness ==
    /\ last.op = "w" /\ last.port = SD_DATA_PORT
    /\ file # None /\ Exists(file[1].name) /\ ~file[1].wr
    /\ status = STATUS_READY

\* C23: a data-port read with no file and no enumeration open returns 0 and
\* changes no state.
C23_IdleDataRead ==
    [][(ReadStep(SD_DATA_PORT) /\ file = None /\ dir = None)
         => (last'.val = 0 /\ UNCHANGED <<sdState, hostState>>)]_vars

\* the data port was read with nothing open and ERROR set
C23_Witness ==
    /\ last.op = "r" /\ last.port = SD_DATA_PORT /\ last.val = 0
    /\ last.was = ErrorReady
    /\ status = ErrorReady

\* C24: a block-read or block-write triggered with no guest memory bound or
\* no file open (nothing open, or only an enumeration) sets BlockStatus to
\* error and leaves guest memory, the storage directory and the open target
\* as they were.
C24_BlockNeedsMemoryAndFile ==
    [][(WriteStep(SD_BLOCK_CMD) /\ (~cpu_mem \/ file = None))
         => /\ block_status' # 0
            /\ UNCHANGED <<mem, fs, file, dir>>]_vars

\* a block transfer failed with memory bound and only an enumeration open
C24_Witness ==
    /\ last.op = "w" /\ last.port = SD_BLOCK_CMD
    /\ cpu_mem /\ file = None /\ dir # None
    /\ block_status # 0

\* C28: a block transfer leaves the status register as it was; only a write
\* to the block-command port changes BlockStatus; a read of the block-command
\* port returns BlockStatus, which is 0 until a transfer has been triggered.
C28_BlockStatusIndependent ==
    /\ block_status = 0
    /\ [][/\ WriteStep(SD_BLOCK_CMD) => status' = status
          /\ ~WriteStep(SD_BLOCK_CMD) => block_status' = block_status
          /\ ReadStep(SD_BLOCK_CMD) => last'.val = block_status]_vars

\* a block transfer failed while the status register held READY without ERROR
C28_Witness ==
    /\ last.op = "w" /\ last.port = SD_BLOCK_CMD
    /\ block_status # 0
    /\ status = STATUS_READY

\* C29: the DMA address is 0x0080 at initialization; a write of l to DMA-low
\* or h to DMA-high sets that byte and keeps the other, and no other step
\* changes the address.
C29_DmaAddress ==
    /\ dma_addr = DMA_DEFAULT
    /\ [][/\ WriteStep(SD_DMA_LO) => dma_addr' = last'.val + 256 * Hi(dma_addr)
          /\ WriteStep(SD_DMA_HI) => dma_addr' = Lo(dma_addr) + 256 * last'.val
          /\ ~(WriteStep(SD_DMA_LO) \/ WriteStep(SD_DMA_HI)) => dma_addr' = dma_addr]_vars

\* both bytes of the DMA address were written, the high byte first, and a
\* block transfer has used the address since
C29_Witness ==
    /\ dma_addr = 255 + 256 * 128
    /\ last.op = "w" /\ last.port = SD_BLOCK_CMD

\* C30: a command byte that is none of the nine opcodes changes no state.
C30_UnknownCommand ==
    [][(\E c \in CmdVals \ RecognisedCmds : CmdStep(c))
         => UNCHANGED <<sdState, hostState>>]_vars

\* an unknown command byte was written with ERROR set and an enumeration open
C30_Witness ==
    /\ \E c \in CmdVals \ RecognisedCmds : CmdDone(c)
    /\ HasBit(status, STATUS_ERROR)
    /\ dir # None

MemAt(m, a) == IF a \in DOMAIN m THEN m[a] ELSE 0
BlockReadStep == WriteStep(SD_BLOCK_CMD) /\ last'.val = 0
BlockWriteStep == WriteStep(SD_BLOCK_CMD) /\ last'.val # 0
BlockOffsets == 0 .. BLOCK_SIZE - 1

\* C25: a block-read with memory bound and a readable file open at offset p
\* with r bytes remaining puts the n = min(r, 128) bytes file[p..p+n) at
\* DmaWindow.. and zeros at the other 128 - n addresses of the window (those
\* that exist), advances the offset by n and sets BlockStatus to success.
C25_BlockRead ==
    [][(BlockReadStep /\ cpu_mem /\ file # None /\ file[1].rd /\ Exists(file[1].name))
         => LET h == file[1]
                n == Min(Remaining(h), BLOCK_SIZE)
            IN  /\ \A i \in BlockOffsets :
                      dma_addr + i < MEM_LIMIT
                        => MemAt(mem', dma_addr + i)
                             = IF i < n THEN fs[h.name][h.pos + i + 1] ELSE 0
                /\ file' = Some([h EXCEPT !.pos = h.pos + n])
                /\ block_status' = 0
                /\ fs' = fs]_vars

\* a block-read moved the three bytes of the file and zero-filled the rest of
\* a window that held other bytes
C25_Witness ==
    /\ last.op = "w" /\ last.port = SD_BLOCK_CMD /\ last.val = 0
    /\ block_status = 0
    /\ file # None /\ file[1].pos = 3
    /\ dma_addr = DMA_DEFAULT
    /\ <<MemR8(128), MemR8(129), MemR8(130), MemR8(255)>> = <<7, 0, 9, 0>>
    /\ MemR8(127) # 0

\* C26: a block-read changes guest memory only at addresses from DmaWindow to
\* min(DmaWindow + 127, 0xFFFF); a block-write changes no guest memory.
C26_BlockWindow ==
    [][/\ BlockReadStep
            => \A a \in DOMAIN mem \cup DOMAIN mem' :
                  MemAt(mem', a) # MemAt(mem, a)
                    => (dma_addr <= a /\ a <= Min(dma_addr + BLOCK_SIZE - 1, MEM_LIMIT - 1))
       /\ BlockWriteStep => mem' = mem]_vars

\* a block-read succeeded with a window that runs past 0xFFFF, and the bytes
\* at the bottom of the address space and just below the window are in place
C26_Witness ==
    /\ last.op = "w" /\ last.port = SD_BLOCK_CMD /\ last.val = 0
    /\ block_status = 0
    /\ dma_addr = 65535
    /\ MemR8(65535) = 7
    /\ MemR8(0) # 0 /\ MemR8(127) # 0

\* C27: a block-write with memory bound and a writable file open at offset p
\* stores 128 bytes at p..p+127, byte i being guest memory at DmaWindow + i,
\* or 0 when that address is past 0xFFFF, keeps the bytes before p, advances
\* the offset by 128 and sets BlockStatus to success.
C27_BlockWrite ==
    [][(BlockWriteStep /\ cpu_mem /\ file # None /\ file[1].wr /\ Exists(file[1].name))
         => LET h == file[1]
                old == fs[h.name]
                new == fs'[h.name]
            IN  /\ Len(new) = Max(Len(old), h.pos + BLOCK_SIZE)
                /\ \A i \in BlockOffsets :
                      new[h.pos + i + 1]
                        = IF dma_addr + i < MEM_LIMIT THEN MemAt(mem, dma_addr + i) ELSE 0
                /\ \A j \in 1 .. Min(h.pos, Len(old)) : new[j] = old[j]
                /\ file' = Some([h EXCEPT !.pos = h.pos + BLOCK_SIZE])
                /\ block_status' = 0]_vars

\* a block-write appended 128 bytes after the first byte of the file from a
\* window that runs past 0xFFFF: the byte at 0xFFFF, then zeros
C27_Witness ==
    /\ last.op = "w" /\ last.port = SD_BLOCK_CMD /\ last.val = 1
    /\ block_status = 0
    /\ dma_addr = 65535
    /\ file # None /\ file[1].pos = 1 + BLOCK_SIZE
    /\ SubSeq(fs[file[1].name], 1, 3) = <<7, MemR8(65535), 0>>
    /\ MemR8(65535) # 0 /\ MemR8(0) # 0

\* what a step shows of the arm that decoded it
ActsAsData ==
    /\ last'.op = "r" => last'.val = DataByte
    /\ (last'.op = "w" /\ file # None /\ file[1].wr)
         => StoredAt(fs', file[1].name, file[1].pos, last'.val)
ActsAsFname == last'.op = "w" => filename' = NonZero(Append(filename, last'.val))
ActsAsSeekLo == last'.op = "w" => Lo(seek_pos') = last'.val
ActsAsSeekHi == last'.op = "w" => Hi(seek_pos') = last'.val
ActsAsSeekEx == last'.op = "w" => Ex(seek_pos') = last'.val
ActsAsDmaLo == last'.op = "w" => Lo(dma_addr') = last'.val
ActsAsDmaHi == last'.op = "w" => Hi(dma_addr') = last'.val
ActsAsBlockCmd ==
    /\ last'.op = "r" => last'.val = block_status
    /\ (last'.op = "w" /\ (~cpu_mem \/ file = None)) => block_status' = 1
ActsAsCmd == (last'.op = "w" /\ last'.val = CMD_CLOSE) => (file' = None /\ dir' = None)
At(offset) == last'.op \in {"r", "w"} /\ last'.port = SD_STATUS_PORT + offset

\* C31 as stated: from the status port's address the data port is at +1,
\* filename +2, seek-low +3, seek-high +4, seek-extended +5, DMA-low +6,
\* DMA-high +7 and block-command +8, and the command port is elsewhere.
C31_DocumentedLayout ==
    [][/\ At(1) => ActsAsData
       /\ At(2) => ActsAsFname
       /\ At(3) => ActsAsSeekLo
       /\ At(4) => ActsAsSeekHi
       /\ At(5) => ActsAsSeekEx
       /\ At(6) => ActsAsDmaLo
       /\ At(7) => ActsAsDmaHi
       /\ At(8) => ActsAsBlockCmd
       /\ SD_CMD_PORT \notin SD_STATUS_PORT .. SD_STATUS_PORT + 8
       /\ WriteStep(SD_CMD_PORT) => ActsAsCmd]_vars

\* C31 amended: data +1, filename +2, seek-low +3, seek-high +4, DMA-low +5,
\* DMA-high +6, block-command +7 and seek-extended +8, with the command port
\* one below the status port.
C31_DecodedLayout ==
    [][/\ At(1) => ActsAsData
       /\ At(2) => ActsAsFname
       /\ At(3) => ActsAsSeekLo
       /\ At(4) => ActsAsSeekHi
       /\ At(5) => ActsAsDmaLo
       /\ At(6) => ActsAsDmaHi
       /\ At(7) => ActsAsBlockCmd
       /\ At(8) => ActsAsSeekEx
       /\ SD_CMD_PORT = SD_STATUS_PORT - 1
       /\ WriteStep(SD_CMD_PORT) => ActsAsCmd]_vars

\* a non-zero byte written eight above the status port is the cursor's
\* extended lane, and the DMA address and BlockStatus are as initialized
C31_Witness ==
    /\ last.op = "w" /\ last.port = SD_STATUS_PORT + 8 /\ last.val # 0
    /\ Ex(seek_pos) = last.val
    /\ dma_addr = DMA_DEFAULT /\ block_status = 0

\* C32: a successful open-append leaves the file open for reading and
\* writing at the end of its content, which it does not change, and a
\* data-port write at the end of a file appends its byte and stays at the end;
\* an open-append of a name that does not exist stores ERROR|READY, leaves no
\* file open and creates none.
C32_OpenAppend ==
    [][/\ (CmdStep(CMD_OPEN_APPEND) /\ Exists(filename))
            => /\ file' = Some(Handle(filename, Len(fs[filename]), TRUE, TRUE))
               /\ status' = STATUS_READY
               /\ fs' = fs
       /\ (CmdStep(CMD_OPEN_APPEND) /\ ~Exists(filename))
            => /\ status' = ErrorReady
               /\ file' = None
               /\ fs' = fs
       /\ (WriteStep(SD_DATA_PORT) /\ file # None /\ file[1].rd /\ file[1].wr
             /\ file[1].pos = Len(fs[file[1].name]))
            => /\ fs'[file[1].name] = Append(fs[file[1].name], last'.val)
               /\ file'[1].pos = Len(fs'[file[1].name])]_vars

\* an open-append succeeded on a file that holds bytes
C32_Witness ==
    /\ CmdDone(CMD_OPEN_APPEND)
    /\ file # None /\ file[1].pos > 0
    /\ file[1].pos = Len(fs[file[1].name])

\* C33: a successful open-read-write leaves the file open for reading and
\* writing at offset 0 with its content as it was; on such a handle a
\* data-port read inside the file returns the byte at the offset, and a
\* data-port write inside the file replaces that byte and no other.
C33_OpenReadWrite ==
    [][/\ (CmdStep(CMD_OPEN_RW) /\ Exists(filename))
            => /\ file' = Some(Handle(filename, 0, TRUE, TRUE))
               /\ status' = STATUS_READY
               /\ fs' = fs
       /\ (file # None /\ file[1].rd /\ file[1].wr /\ file[1].pos < Len(fs[file[1].name]))
            => LET h == file[1]
                   old == fs[h.name]
               IN  /\ ReadStep(SD_DATA_PORT)
                        => /\ last'.val = old[h.pos + 1]
                           /\ file' = Some([h EXCEPT !.pos = h.pos + 1])
                           /\ fs' = fs
                   /\ WriteStep(SD_DATA_PORT)
                        => /\ fs' = [fs EXCEPT ![h.name] = [old EXCEPT ![h.pos + 1] = last'.val]]
                           /\ file' = Some([h EXCEPT !.pos = h.pos + 1])]_vars

\* the second byte of a two-byte file was overwritten in place
C33_Witness ==
    /\ last.op = "w" /\ last.port = SD_DATA_PORT
    /\ file # None /\ file[1].rd /\ file[1].wr /\ file[1].pos = 2
    /\ fs[file[1].name] = <<7, 7>>
    /\ guest.pc = "free"

\* C34: no port access faults: every read returns a byte, so the directory
\* branch never indexes the pending entry at or past its length, and an open
\* enumeration's position is never past the end of the pending entry.
C34_NoFault ==
    /\ last.op = "r" => last.val \in 0 .. 255
    /\ DataByte # FAULT
    /\ dir # None => dir_entry_pos <= Len(dir_entry)

\* the last byte of an entry has been read: the position equals the length of
\* the pending text while the enumeration is open
C34_Witness ==
    /\ last.op = "r" /\ last.port = SD_DATA_PORT /\ last.val = 10
    /\ dir # None /\ file = None
    /\ dir_entry_pos = Len(dir_entry)

\* C35: a block-read with memory bound that finds fewer than 128 bytes left
\* in the open file, or none, keeps the file open: DATA stays set in the
\* status byte and the status register is unchanged.
C35_BlockReadKeepsFile ==
    [][(BlockReadStep /\ cpu_mem /\ file # None /\ Remaining(file[1]) < BLOCK_SIZE)
         => /\ file' # None /\ file'[1].name = file[1].name
            /\ HasBit(StatusByte', STATUS_DATA)
            /\ status' = status]_vars

\* a block-read has read the last bytes of a file, which is still open
C35_Witness ==
    /\ last.op = "w" /\ last.port = SD_BLOCK_CMD /\ last.val = 0
    /\ block_status = 0
    /\ file # None /\ file[1].pos > 0 /\ Remaining(file[1]) = 0
    /\ HasBit(StatusByte, STATUS_DATA)

\* C36: a block transfer the handle's access mode does not permit (a
\* block-write on a file opened with open-read, a block-read on a file opened
\* with create) sets BlockStatus to error and leaves the file contents, the
\* open handle, guest memory and the status register as they were.
C36_BlockModeError ==
    [][(cpu_mem /\ file # None /\ Exists(file[1].name)
          /\ \/ BlockWriteStep /\ ~file[1].wr
             \/ BlockReadStep /\ ~file[1].rd)
         => /\ block_status' = 1
            /\ UNCHANGED <<fs, file, mem, status>>]_vars

\* a block-write failed on a file opened with open-read
C36_Witness ==
    /\ last.op = "w" /\ last.port = SD_BLOCK_CMD /\ last.val = 1
    /\ cpu_mem /\ file # None /\ file[1].rd /\ ~file[1].wr /\ Exists(file[1].name)
    /\ block_status = 1

\* the bytes read so far are the first bytes of the complete listing
ListingPrefix ==
    LET k == Min(Len(guest.got), Len(guest.B))
    IN  SubSeq(guest.got, 1, k) = SubSeq(guest.B, 1, k)

\* C37: after a list-directory issued while an enumeration was in progress
\* (guest.old = 1), in the middle of an entry's text or not, the data-port
\* reads that follow yield the complete listing from its first entry's first
\* byte.
C37_Restart ==
    (guest.kind = "listing" /\ guest.old = 1) => ListingPrefix

\* the same for a restart issued with no file open, together with the step
\* itself: the restarting command discards the pending entry
C37_RestartNoFile ==
    /\ (guest.kind = "listing" /\ guest.old = 1 /\ ~guest.busy) => ListingPrefix
    /\ [][(CmdStep(CMD_DIR) /\ dir # None /\ dir' # None)
            => dir_entry' = << >> /\ dir_entry_pos' = 0]_vars

\* a listing restarted in the middle of an entry has been read whole
C37_Witness ==
    /\ guest.kind = "listing" /\ guest.pc = "done"
    /\ guest.old = 1 /\ guest.extra > 0 /\ ~guest.busy
    /\ Len(guest.B) > 0

\* every port number of the 8-bit I/O space
AllPorts == 0 .. 255

C38_WitnessStatusWrite ==
    /\ last.op = "w" /\ last.port = SD_STATUS_PORT
    /\ HasBit(status, STATUS_ERROR)

====
